---- MODULE Spec2Model ----
(***************************************************************************)
(* Model of the remote-reference discovery, fetch, trust-classification    *)
(* and recursive assessment engine of ShellCheck AI.                       *)
(*                                                                         *)
(* Text (script content, URLs, error messages, digests) is a sequence of   *)
(* lexical tokens; every token is a literal piece of the text ("curl",     *)
(* " ", "https://", "$", ...; the backtick and the two quote characters are  *)
(* written BACKTICK, SQUOTE, DQUOTE).  Regular expressions, String.trim    *)
(* and the URL constructor are modelled by what they do on such sequences. *)
(***************************************************************************)
EXTENDS Integers, Sequences, FiniteSets, TLC

VARIABLES
    nodes,        \* path -> invocation of assessRiskAndProvideReportFlow
    registry,     \* known-scripts list: sequence of [url, hash]
    cryptoBuild,  \* which sha256 of src the build links: "webcrypto" | "stub"
    action,       \* analyzeScriptAction: [pc, result]
    vCand,        \* validator harness: candidate string given to isValidUrl
    vVerdict      \* validator harness: verdicts of the isValidUrl variants

vars == <<nodes, registry, cryptoBuild, action, vCand, vVerdict>>

----------------------------------------------------------------------------
(* Bounds of the model (not program constants).                            *)

\* longest candidate string (in tokens) handed to the validator harness
MaxLen == 3

\* deepest invocation the model lets exist; the program itself stops at
\* MAX_RECURSION_DEPTH + 1, the cap only matters when that check is broken
DepthCap == 5

----------------------------------------------------------------------------
(* Program constants.                                                      *)

MAX_RECURSION_DEPTH == 3

\* riskScore of the report returned when the depth limit is exceeded
DepthLimitRiskScore == 10

\* the 1-10 scale the prompt asks the collaborator for
MinRiskScore == 1

----------------------------------------------------------------------------
(* Generic helpers on sequences.                                           *)

Min(S) == CHOOSE x \in S : \A y \in S : x <= y

Max(S) == CHOOSE x \in S : \A y \in S : x >= y

Range(s) == {s[i] : i \in 1..Len(s)}

IsPrefix(p, s) == Len(p) <= Len(s) /\ SubSeq(s, 1, Len(p)) = p

\* s contains the two adjacent tokens a b
HasPair(s, a, b) == \E i \in 1..(Len(s) - 1) : s[i] = a /\ s[i + 1] = b

----------------------------------------------------------------------------
(* Character classes, on tokens.                                           *)

\* \s
WS == {" ", "\n"}

\* (?:curl|wget)
FetchVerbs == {"curl", "wget"}

\* https?:\/\/
HttpSchemes == {"http://", "https://"}

\* scheme prefixes the URL parser recognises in the model's alphabet
SchemeTokens == {"http://", "https://", "ftp://"}

\* [^|;] excludes these
PrefixExcluded == {"|", ";"}

\* [^\s'"`${}()] excludes these
CaptureExcluded == WS \cup {"SQUOTE", "DQUOTE", "BACKTICK", "$", "{", "}", "(", ")"}

\* the shell-expansion markers of the validator contract
ExpansionMarkers == {"$", "BACKTICK", "{", "}"}

\* backtick, quotes and parentheses, rejected by the validator of the tool
QuoteParen == {"BACKTICK", "SQUOTE", "DQUOTE", "(", ")"}

\* forbidden host code points of the URL parser that occur in the alphabet
ForbiddenHost == {" ", "|", "<", ">"}

----------------------------------------------------------------------------
(* String.prototype.trim and the URL constructor.                          *)

\* String.prototype.trim: the text between the first and the last token
\* that is not white space
Trim(s) ==
    IF Range(s) \subseteq WS THEN <<>>
    ELSE SubSeq(s, Min({i \in 1..Len(s) : s[i] \notin WS}),
                   Max({i \in 1..Len(s) : s[i] \notin WS}))

NotNewline(t) == t # "\n"

\* the URL parser first strips leading/trailing space and drops every newline
UrlPreprocess(s) == Trim(SelectSeq(s, NotNewline))

\* tokens of the authority: everything after the scheme up to the first "/"
HostPart(s) ==
    IF "/" \in Range(s)
    THEN SubSeq(s, 1, Min({i \in 1..Len(s) : s[i] = "/"}) - 1)
    ELSE s

\* new URL(str): [ok |-> parsed, protocol |-> scheme of the parsed URL]
UrlParse(str) ==
    LET s == UrlPreprocess(str) IN
    IF s = <<>> \/ Head(s) \notin SchemeTokens
    THEN [ok |-> FALSE, protocol |-> "none"]
    ELSE LET host == HostPart(Tail(s)) IN
         IF host = <<>> \/ Range(host) \cap ForbiddenHost # {}
         THEN [ok |-> FALSE, protocol |-> "none"]
         ELSE [ok |-> TRUE, protocol |-> Head(s)]

----------------------------------------------------------------------------
(* isValidUrl, the variants found in the source.                           *)

\* variant with a test on $, { and } only (backtick passes)
isValidUrlCharClass(str) ==
    IF Range(str) \cap {"$", "{", "}"} # {} THEN FALSE
    ELSE LET u == UrlParse(str) IN u.ok /\ u.protocol \in HttpSchemes

\* variant with str.includes tests on $, { and } and no protocol test
isValidUrlIncludes(str) ==
    IF "$" \in Range(str) \/ "{" \in Range(str) \/ "}" \in Range(str) THEN FALSE
    ELSE UrlParse(str).ok

\* variant rejecting "${", backtick and "$("
isValidUrlSubst(str) ==
    IF HasPair(str, "$", "{") \/ "BACKTICK" \in Range(str) \/ HasPair(str, "$", "(")
    THEN FALSE
    ELSE LET u == UrlParse(str) IN u.ok /\ u.protocol \in HttpSchemes

\* the validator of the tool the engine uses
isValidUrl(str) ==
    IF HasPair(str, "$", "{") \/ (Range(str) \cap QuoteParen # {})
    THEN FALSE
    ELSE LET u == UrlParse(str) IN u.ok /\ u.protocol \in HttpSchemes

----------------------------------------------------------------------------
(* detectAndFetchRemoteScripts: extraction, validation, deduplication.     *)

\* end of the greedy run [^\s...]+ whose last matched token so far is at j:
\* the token before the next one outside the class
RunEnd(text, j) ==
    Min({e \in j..Len(text) : e = Len(text) \/ text[e + 1] \in CaptureExcluded})

\* positions of "https?://" where urlRegex can match when its verb is at i:
\* [^|;]*? reaches the position, \s+ ends just before it, and at least one
\* token of the capture class follows the scheme
UrlStarts(text, i) ==
    {q \in (i + 2)..(Len(text) - 1) :
        /\ text[q] \in HttpSchemes
        /\ text[q - 1] \in WS
        /\ text[q + 1] \notin CaptureExcluded
        /\ \A j \in (i + 1)..(q - 1) : text[j] \notin PrefixExcluded}

\* verbs at or after lastIndex = from at which urlRegex matches
MatchVerbs(text, from) ==
    {i \in from..Len(text) : text[i] \in FetchVerbs /\ UrlStarts(text, i) # {}}

\* first and last token of match[1] of the leftmost match at or after from;
\* the lazy [^|;]*? makes it the first possible URL after the verb
MatchFirst(text, from) == Min(UrlStarts(text, Min(MatchVerbs(text, from))))

MatchLast(text, from) == RunEnd(text, MatchFirst(text, from) + 1)

\* a tool whose regex object is shared by all calls and is left, by a call
\* that has run before, with its cursor after the first match
urlRegexExecAllStaleCursor(text) ==
    LET matches[from \in 1..(Len(text) + 1)] ==
            IF MatchVerbs(text, from) = {} THEN <<>>
            ELSE <<Trim(SubSeq(text, MatchFirst(text, from), MatchLast(text, from)))>>
                 \o matches[MatchLast(text, from) + 1]
        ranBefore == \E p \in DOMAIN nodes : nodes[p].stage # "invoked"
    IN  IF ranBefore /\ MatchVerbs(text, 1) # {}
        THEN matches[MatchLast(text, 1) + 1]
        ELSE matches[1]

\* the while loop over urlRegex.exec from lastIndex = 1: every match[1],
\* trimmed, in order; the next search starts after the end of the match
urlRegexExecAll(text) ==
    LET matches[from \in 1..(Len(text) + 1)] ==
            IF MatchVerbs(text, from) = {} THEN <<>>
            ELSE <<Trim(SubSeq(text, MatchFirst(text, from), MatchLast(text, from)))>>
                 \o matches[MatchLast(text, from) + 1]
    IN  matches[1]

\* an extractor that guesses: it reads a variable as the start of an address
potentialUrlsGuessingVariables(scriptContent) ==
    LET NotBrace(t) == t \notin {"{", "}"}
        bare == SelectSeq(scriptContent, NotBrace)
    IN  urlRegexExecAll([i \in 1..Len(bare) |->
                            IF bare[i] = "$" THEN "https://" ELSE bare[i]])

potentialUrls(scriptContent) == urlRegexExecAll(scriptContent)

\* a tool that fetches every match, repeated ones too
KeepDuplicates(s) == s

\* [...new Set(s)]: the first occurrence of every element, in order
Unique(s) ==
    LET firsts == {i \in 1..Len(s) : \A j \in 1..(i - 1) : s[j] # s[i]}
    IN  [k \in 1..Cardinality(firsts) |->
            s[CHOOSE i \in firsts : Cardinality({j \in firsts : j <= i}) = k]]

validUrls(scriptContent) == SelectSeq(potentialUrls(scriptContent), isValidUrl)

uniqueValidUrls(scriptContent) == Unique(validUrls(scriptContent))

----------------------------------------------------------------------------
(* sha256, the two versions of the crypto helper.                          *)

\* the helper "reverted to an empty state"
sha256Stub(text) == <<>>

\* the webcrypto digest, lower-case hex: one distinct value per text; the
\* first token stands for the hex letters, "sha256:" when they are written
\* in lower case and "SHA256:" when they are written in upper case
sha256WebCrypto(text) == <<"sha256:">> \o text

sha256(text) ==
    IF cryptoBuild = "stub" THEN sha256Stub(text) ELSE sha256WebCrypto(text)

----------------------------------------------------------------------------
(* The fetch of one URL.                                                   *)

\* what the fetch of one URL can come back with
FetchResponses(body) ==
    { [kind |-> "ok", body |-> body],
      [kind |-> "status", status |-> "404", statusText |-> "Not Found"],
      [kind |-> "throw", message |-> "fetch failed"] }

\* a fetch stage that lets the exception of a fetch escape
FetchOutcomeLosingErrors(url, resp) ==
    IF resp.kind = "ok"
    THEN [url |-> url, content |-> resp.body, hash |-> sha256(resp.body)]
    ELSE [url |-> url]

\* a fetch stage that reports every failure with one fixed text
FetchOutcomeWithoutCause(url, resp) ==
    IF resp.kind = "ok"
    THEN [url |-> url, content |-> resp.body, hash |-> sha256(resp.body)]
    ELSE [url |-> url, error |-> <<"Failed to fetch script from ">> \o url \o <<".">>]

\* the body of the async callback mapped over uniqueValidUrls
FetchOutcome(url, resp) ==
    CASE resp.kind = "ok" ->
           [url |-> url, content |-> resp.body, hash |-> sha256(resp.body)]
      [] resp.kind = "status" ->
           [url |-> url,
            error |-> <<"Failed to fetch script from ">> \o url
                      \o <<". Status: ", resp.status, " ", resp.statusText, ".">>]
      [] resp.kind = "throw" ->
           [url |-> url,
            error |-> <<"An exception occurred while trying to fetch script from ">>
                      \o url \o <<": ", resp.message, ".">>]

\* JavaScript truthiness of an optional string field
Truthy(rec, field) == field \in DOMAIN rec /\ rec[field] # <<>>

----------------------------------------------------------------------------
(* Trust classification against the known-scripts registry.                *)

\* new Map(knownScripts.map(s => [s.url, s.hash])): the last entry wins
knownScriptsMap(knownScripts) ==
    [u \in {knownScripts[i].url : i \in 1..Len(knownScripts)} |->
        LET last == CHOOSE i \in 1..Len(knownScripts) :
                       /\ knownScripts[i].url = u
                       /\ \A j \in (i + 1)..Len(knownScripts) :
                             knownScripts[j].url # u
        IN  knownScripts[last].hash]

\* a classifier that trusts any URL present in the registry
ClassifyByUrlOnly(script, map) ==
    IF Truthy(script, "error")
    THEN [url |-> script.url, status |-> "error", details |-> script.error]
    ELSE IF script.url \in DOMAIN map
         THEN [url |-> script.url, status |-> "verified"]
         ELSE [url |-> script.url, status |-> "unverified"]

\* one iteration of the loop over detectedScripts
\* a classifier that compares the digests without testing script.hash
ClassifyWithoutHashGuard(script, map) ==
    IF Truthy(script, "error")
    THEN [url |-> script.url, status |-> "error", details |-> script.error]
    ELSE IF script.url \in DOMAIN map /\ map[script.url] = script.hash
         THEN [url |-> script.url, status |-> "verified"]
         ELSE [url |-> script.url, status |-> "unverified"]

Classify(script, map) ==
    IF Truthy(script, "error")
    THEN [url |-> script.url, status |-> "error", details |-> script.error]
    ELSE IF /\ Truthy(script, "hash")
            /\ script.url \in DOMAIN map
            /\ map[script.url] = script.hash
         THEN [url |-> script.url, status |-> "verified"]
         ELSE [url |-> script.url, status |-> "unverified"]

----------------------------------------------------------------------------
(* The world the engine runs in: URLs, what they serve, root scripts,      *)
(* registries.                                                             *)

uS == <<"https://", "s">>
uA == <<"https://", "a">>
uB == <<"https://", "b">>
uL == <<"https://", "l">>
uM == <<"https://", "m">>
uN == <<"https://", "n">>

\* curl https://s | bash, served by https://s itself
SelfScript == <<"curl", " ", "https://", "s", " ", "|", " ", "bash">>

\* script A sources script B, script B sources script A
ScriptA == <<"curl", " ", "https://", "b", " ", "|", " ", "sh">>
ScriptB == <<"source", " ", "<", "(", "wget", " ", "https://", "a", ")">>

LeafScript == <<"echo">>
LeafScript2 == <<"echo", " ", "hi">>

\* the same URL twice and a second URL
DupScript ==
    <<"curl", " ", "https://", "l", " ", "|", " ", "bash", "\n",
      "curl", " ", "https://", "n", " ", "|", " ", "sh", "\n",
      "curl", " ", "https://", "l", " ", "|", " ", "bash">>

\* wget https://m | sh, where https://m serves an empty body, then
\* curl https://l | sh
EmptyBodyScript ==
    <<"wget", " ", "https://", "m", " ", "|", " ", "sh", "\n",
      "curl", " ", "https://", "l", " ", "|", " ", "sh">>

\* curl https://h/${branch}/x.sh | bash
ExpansionScript ==
    <<"curl", " ", "https://", "h", "/", "$", "{", "branch", "}", "/", "x.sh",
      " ", "|", " ", "bash">>

\* curl ${REPO_URL}/setup.sh | bash
VariableScript ==
    <<"curl", " ", "$", "{", "REPO_URL", "}", "/", "setup.sh", " ", "|", " ", "bash">>

\* curl -o f https://l : a download that is not executed
DownloadScript == <<"curl", " ", "-o", " ", "f", " ", "https://", "l">>

\* curl --version, and on the next line echo https://n
LaterLineScript ==
    <<"curl", " ", "--version", "\n", "echo", " ", "https://", "n">>

RootScripts ==
    {SelfScript, ScriptA, DupScript, EmptyBodyScript, ExpansionScript,
     VariableScript, LeafScript, DownloadScript, LaterLineScript}

\* the body a successful GET of url returns
Web(url) ==
    CASE url = uS -> SelfScript
      [] url = uA -> ScriptA
      [] url = uB -> ScriptB
      [] url = uL -> LeafScript
      [] url = uN -> LeafScript2
      [] url = uM -> <<>>
      [] OTHER -> LeafScript

\* known-scripts lists the engine may be started with
RegistryA ==
    << [url |-> uL, hash |-> <<"sha256:", "old">>],
       [url |-> uL, hash |-> sha256WebCrypto(LeafScript)],
       [url |-> uN, hash |-> <<"sha256:", "stale">>],
       [url |-> uB, hash |-> sha256WebCrypto(ScriptB)] >>

\* (https://n is listed with the digest of its content in upper-case hex)
RegistryB ==
    << [url |-> uL, hash |-> <<>>],
       [url |-> uS, hash |-> sha256WebCrypto(SelfScript)],
       [url |-> uN, hash |-> <<"SHA256:">> \o LeafScript2] >>

Registries == {RegistryA, RegistryB}

----------------------------------------------------------------------------
(* The narrative collaborator (the prompt call).                           *)

Reverse(s) == [k \in 1..Len(s) |-> s[Len(s) + 1 - k]]

\* a remoteScripts list a collaborator could make up from the one it was given
Forged(remoteScripts) ==
    LET r == Reverse(remoteScripts)
    IN  [k \in 1..Len(r) |-> [url |-> r[k].url, status |-> "verified"]]
        \o << [url |-> <<"https://", "made-up">>, status |-> "verified"] >>

\* what the prompt call can resolve to: no output, a thrown error, or an
\* output with any score of the scale, any remoteScripts and any binaries
CollaboratorReplies(verificationResults) ==
    { [kind |-> "none"], [kind |-> "throw", message |-> <<"model unavailable">>] }
    \cup
    { [kind |-> "output",
       output |-> [riskScore |-> sc, report |-> <<"narrative">>,
                   billOfMaterials |-> bom]] :
        sc \in {MinRiskScore, 5, DepthLimitRiskScore},
        bom \in { [remoteScripts |-> verificationResults.remoteScripts,
                   externalBinaries |-> <<>>],
                  [remoteScripts |-> Forged(verificationResults.remoteScripts),
                   externalBinaries |-> <<"jq">>] } }

----------------------------------------------------------------------------
(* One invocation of assessRiskAndProvideReportFlow.                       *)
(*                                                                         *)
(* The flow modelled is the recursive one (depth check, tool call,         *)
(* sub-analysis of every fetched script, final prompt call) carrying the   *)
(* registry classification and the bill of materials of the classifying   *)
(* one: outcomes are classified when the tool returns, the verification    *)
(* results go into the prompt, and remoteScripts of the output is          *)
(* overwritten with them.                                                  *)

NoReport == [riskScore |-> 0, report |-> <<>>]

NoPrompt == [scriptContent |-> <<>>]

NoReply == [kind |-> "pending"]

NewNode(scriptContent) ==
    [ content  |-> scriptContent,
      stage    |-> "invoked",
      urls     |-> <<>>,       \* uniqueValidUrls
      fetch    |-> <<>>,       \* per URL: idle, inflight, or settled + outcome
      records  |-> <<>>,       \* verificationResults.remoteScripts
      children |-> {},         \* indexes of urls a sub-analysis was started for
      prompt   |-> NoPrompt,   \* input of the final prompt call
      reply    |-> NoReply,    \* what the prompt call settled with
      report   |-> NoReport,   \* resolved value
      error    |-> <<>> ]      \* rejection message

Depth(p) == Len(p)

\* an engine without the depth check
DepthExceededOffByOne(recursionLevel) == recursionLevel > MAX_RECURSION_DEPTH + 1

\* an engine that cuts at the limit itself
DepthExceededAtLimit(recursionLevel) == recursionLevel >= MAX_RECURSION_DEPTH

DepthExceeded(recursionLevel) == recursionLevel > MAX_RECURSION_DEPTH

DepthLimitReport(recursionLevel) ==
    [ riskScore |-> DepthLimitRiskScore,
      report |-> <<"Analysis stopped at recursion depth ", ToString(recursionLevel),
                   " to prevent infinite loops.">> ]

\* uniqueValidUrls.map(async ...) calls fetch for every URL before it returns
FetchesStarted(urls) == 1..Len(urls)

\* a join that resolves with the first settled fetch
AnySettled(fetch) == fetch = <<>> \/ \E k \in 1..Len(fetch) : fetch[k].st = "settled"

\* Promise.all over the fetches
AllSettled(fetch) == \A k \in 1..Len(fetch) : fetch[k].st = "settled"

IsSettled(f) == f.st = "settled"

\* a tool that collects the outcomes as the fetches complete
DetectedScriptsByArrival(fetch) ==
    [n \in 1..Len(fetch) |->
        fetch[CHOOSE k \in 1..Len(fetch) : fetch[k].at = n].out]

\* the outcomes the tool returned, in the order of uniqueValidUrls
\* a tool that leaves the failed fetches out of its result
DetectedScriptsOmittingFailures(fetch) ==
    LET done == SelectSeq(fetch, LAMBDA f : IsSettled(f) /\ f.resp = "ok")
    IN  [k \in 1..Len(done) |-> done[k].out]

DetectedScripts(fetch) ==
    LET done == SelectSeq(fetch, IsSettled)
    IN  [k \in 1..Len(done) |-> done[k].out]

\* a flow that only skips the outcomes that carry an error
RecursesOnEmptyContent(subScript) == ~Truthy(subScript, "error")

\* a flow that remembers the scripts it has analysed and skips them
RecursesUnlessVisited(subScript) ==
    /\ ~(Truthy(subScript, "error") \/ ~Truthy(subScript, "content"))
    /\ ~\E q \in DOMAIN nodes : nodes[q].content = subScript.content

\* the sub-analysis is started unless the outcome has an error or no content
Recurses(subScript) ==
    ~(Truthy(subScript, "error") \/ ~Truthy(subScript, "content"))

----------------------------------------------------------------------------
(* Actions of the engine.                                                  *)

EngineHarnessUnchanged == UNCHANGED <<registry, cryptoBuild, vCand, vVerdict>>

\* a tool that throws when the script has no remote reference
StartedFailingWithoutUrls(node, recursionLevel) ==
    IF DepthExceeded(recursionLevel)
    THEN [node EXCEPT !.stage = "done",
                      !.report = DepthLimitReport(recursionLevel)]
    ELSE IF uniqueValidUrls(node.content) = << >>
    THEN [node EXCEPT !.stage = "failed",
                      !.error = <<"No remote script found.">>]
    ELSE LET urls == uniqueValidUrls(node.content)
         IN  [node EXCEPT
                 !.stage = "fetching",
                 !.urls = urls,
                 !.fetch = [k \in 1..Len(urls) |-> [st |-> "inflight"]]]

\* the invocation after its synchronous start: the depth check, then
\* detectAndFetchRemoteScripts up to the await of Promise.all
Started(node, recursionLevel) ==
    IF DepthExceeded(recursionLevel)
    THEN [node EXCEPT !.stage = "done",
                      !.report = DepthLimitReport(recursionLevel)]
    ELSE LET urls == uniqueValidUrls(node.content)
             started == FetchesStarted(urls)
         IN  [node EXCEPT
                 !.stage = "fetching",
                 !.urls = urls,
                 !.fetch = [k \in 1..Len(urls) |->
                               IF k \in started THEN [st |-> "inflight"]
                               ELSE [st |-> "idle"]]]

\* The invocation starts running.
Invoke(p) ==
    /\ nodes[p].stage = "invoked"
    /\ nodes' = [nodes EXCEPT ![p] = Started(nodes[p], Depth(p))]
    /\ UNCHANGED action
    /\ EngineHarnessUnchanged

\* One in-flight fetch comes back; the callback turns it into an outcome.
\* (at: the rank of this completion among the fetches of the document)
FetchSettle(p, k) ==
    /\ nodes[p].stage = "fetching"
    /\ k \in 1..Len(nodes[p].fetch)
    /\ nodes[p].fetch[k].st = "inflight"
    /\ \E resp \in FetchResponses(Web(nodes[p].urls[k])) :
          nodes' = [nodes EXCEPT ![p].fetch[k] =
                       [st |-> "settled",
                        at |-> Cardinality({j \in 1..Len(nodes[p].fetch) :
                                  nodes[p].fetch[j].st = "settled"}) + 1,
                        resp |-> resp.kind,
                        out |-> FetchOutcome(nodes[p].urls[k], resp)]]
    /\ UNCHANGED action
    /\ EngineHarnessUnchanged

\* The server of one in-flight fetch never completes its response.  fetch is
\* called with headers only (no signal, no timer), so nothing in the tool
\* settles that fetch: it stays pending.
FetchStall(p, k) ==
    /\ nodes[p].stage = "fetching"
    /\ k \in 1..Len(nodes[p].fetch)
    /\ nodes[p].fetch[k].st = "inflight"
    /\ nodes' = [nodes EXCEPT ![p].fetch[k] = [st |-> "stalled"]]
    /\ UNCHANGED action
    /\ EngineHarnessUnchanged

\* a flow whose verificationResults is one list shared by all invocations
JoinSharedResults(p) ==
    /\ nodes[p].stage = "fetching"
    /\ AllSettled(nodes[p].fetch)
    /\ LET detected == DetectedScripts(nodes[p].fetch)
           map == knownScriptsMap(registry)
           others == {q \in DOMAIN nodes : q # p /\ nodes[q].records # << >>}
           shared == IF others = {} THEN << >>
                     ELSE nodes[CHOOSE q \in others : TRUE].records
           records == shared \o [k \in 1..Len(detected) |-> Classify(detected[k], map)]
           kids == {k \in 1..Len(nodes[p].fetch) :
                       Depth(p) < DepthCap /\ Recurses(nodes[p].fetch[k].out)}
       IN  nodes' = [c \in {Append(p, k) : k \in kids} |->
                        NewNode(nodes[p].fetch[c[Len(c)]].out.content)]
                    @@ [nodes EXCEPT ![p].stage = "recursing",
                                     ![p].records = records,
                                     ![p].children = kids]
    /\ UNCHANGED action
    /\ EngineHarnessUnchanged

\* Promise.all of the fetches resolves: the tool returns, the outcomes are
\* classified against the registry and the sub-analyses are started.
Join(p) ==
    /\ nodes[p].stage = "fetching"
    /\ AllSettled(nodes[p].fetch)
    /\ LET detected == DetectedScripts(nodes[p].fetch)
           map == knownScriptsMap(registry)
           records == [k \in 1..Len(detected) |-> Classify(detected[k], map)]
           kids == IF Depth(p) < DepthCap
                   THEN {k \in 1..Len(nodes[p].fetch) :
                            /\ nodes[p].fetch[k].st = "settled"
                            /\ Recurses(nodes[p].fetch[k].out)}
                   ELSE {}
       IN  nodes' = [c \in {Append(p, k) : k \in kids} |->
                        NewNode(nodes[p].fetch[c[Len(c)]].out.content)]
                    @@ [nodes EXCEPT ![p].stage = "recursing",
                                     ![p].records = records,
                                     ![p].children = kids]
    /\ UNCHANGED action
    /\ EngineHarnessUnchanged

Child(p, k) == nodes[Append(p, k)]

\* the text handed to the collaborator for one outcome
SubScriptEntry(p, k) ==
    IF k \in nodes[p].children
    THEN [url |-> nodes[p].urls[k],
          riskScore |-> Child(p, k).report.riskScore,
          report |-> Child(p, k).report.report]
    ELSE [url |-> nodes[p].urls[k],
          error |-> <<"ERROR: Could not fetch or analyze script.">>]

\* a flow that calls the prompt without awaiting the sub-analyses
SynthesizeEarly(p) ==
    /\ nodes[p].stage = "recursing"
    /\ nodes' = [nodes EXCEPT
          ![p].stage = "synthesizing",
          ![p].prompt =
              [scriptContent |-> nodes[p].content,
               verificationResults |->
                   [remoteScripts |-> nodes[p].records,
                    externalBinaries |-> <<>>],
               subScriptAnalysis |->
                   [k \in 1..Len(nodes[p].urls) |-> SubScriptEntry(p, k)]]]
    /\ UNCHANGED action
    /\ EngineHarnessUnchanged

\* Promise.all of the sub-analyses resolves: the prompt is called with the
\* script, the verification results and the sub-script analysis.
Synthesize(p) ==
    /\ nodes[p].stage = "recursing"
    /\ \A k \in nodes[p].children : Child(p, k).stage = "done"
    /\ nodes' = [nodes EXCEPT
          ![p].stage = "synthesizing",
          ![p].prompt =
              [scriptContent |-> nodes[p].content,
               verificationResults |->
                   [remoteScripts |-> nodes[p].records,
                    externalBinaries |-> <<>>],
               subScriptAnalysis |->
                   [k \in 1..Len(nodes[p].urls) |-> SubScriptEntry(p, k)]]]
    /\ UNCHANGED action
    /\ EngineHarnessUnchanged

\* Promise.all of the sub-analyses rejects as soon as one of them rejects.
ChildFailure(p) ==
    /\ nodes[p].stage = "recursing"
    /\ \E k \in nodes[p].children :
          /\ Child(p, k).stage = "failed"
          /\ nodes' = [nodes EXCEPT ![p].stage = "failed",
                                    ![p].error = Child(p, k).error]
    /\ UNCHANGED action
    /\ EngineHarnessUnchanged

\* a flow that answers with a default report when the prompt gives nothing
SwallowFailure(reply, records) ==
    IF reply.kind = "output"
    THEN [ok |-> TRUE,
          report |-> [reply.output EXCEPT
                         !.billOfMaterials.remoteScripts = records]]
    ELSE [ok |-> TRUE,
          report |-> [riskScore |-> MinRiskScore, report |-> <<>>,
                      billOfMaterials |-> [remoteScripts |-> records,
                                           externalBinaries |-> <<>>]]]

\* a flow that returns the output of the collaborator as it is
KeepCollaboratorList(reply, records) ==
    IF reply.kind = "output"
    THEN [ok |-> TRUE, report |-> reply.output]
    ELSE [ok |-> FALSE, error |-> <<"Analysis failed to produce an output.">>]

\* what the flow does with the resolved prompt call
Finish(reply, records) ==
    CASE reply.kind = "throw" -> [ok |-> FALSE, error |-> reply.message]
      [] reply.kind = "none" ->
           [ok |-> FALSE, error |-> <<"Analysis failed to produce an output.">>]
      [] reply.kind = "output" ->
           [ok |-> TRUE,
            report |-> [reply.output EXCEPT
                           !.billOfMaterials.remoteScripts = records]]

\* The prompt call settles.
CollaboratorReply(p) ==
    /\ nodes[p].stage = "synthesizing"
    /\ \E reply \in CollaboratorReplies(nodes[p].prompt.verificationResults) :
          LET r == Finish(reply, nodes[p].records)
          IN  IF r.ok
              THEN nodes' = [nodes EXCEPT ![p].stage = "done",
                                          ![p].reply = reply,
                                          ![p].report = r.report]
              ELSE nodes' = [nodes EXCEPT ![p].stage = "failed",
                                          ![p].reply = reply,
                                          ![p].error = r.error]
    /\ UNCHANGED action
    /\ EngineHarnessUnchanged

Root == << >>

\* analyzeScriptAction: the awaited assessment settles
ActionReturn ==
    /\ action.pc = "assessing"
    /\ nodes[Root].stage \in {"done", "failed"}
    /\ action' =
          IF nodes[Root].stage = "done"
          THEN [action EXCEPT !.pc = "returned",
                              !.result = [data |-> nodes[Root].report]]
          ELSE [action EXCEPT !.pc = "returned",
                              !.result = [error |-> nodes[Root].error]]
    /\ UNCHANGED nodes
    /\ EngineHarnessUnchanged

----------------------------------------------------------------------------
(* Specification of the engine.                                            *)

NoVerdict ==
    [done |-> FALSE, tool |-> FALSE, subst |-> FALSE, charClass |-> FALSE,
     includes |-> FALSE]

Init ==
    /\ \E script \in RootScripts : nodes = (Root :> NewNode(script))
    /\ registry \in Registries
    /\ cryptoBuild \in {"webcrypto", "stub"}
    /\ action = [pc |-> "assessing", result |-> [none |-> TRUE]]
    /\ vCand = <<>>
    /\ vVerdict = NoVerdict

Next ==
    \/ \E p \in DOMAIN nodes : Invoke(p)
    \/ \E p \in DOMAIN nodes : \E k \in 1..Len(nodes[p].fetch) : FetchSettle(p, k)
    \/ \E p \in DOMAIN nodes : Join(p)
    \/ \E p \in DOMAIN nodes : Synthesize(p)
    \/ \E p \in DOMAIN nodes : ChildFailure(p)
    \/ \E p \in DOMAIN nodes : CollaboratorReply(p)
    \/ ActionReturn

Spec == Init /\ [][Next]_vars

\* every fetch and every prompt call returns, and the event loop runs every
\* continuation that is ready
LiveSpec == Spec /\ WF_vars(Next)

\* the engine among servers that may never complete a response
NextStall ==
    \/ Next
    \/ \E p \in DOMAIN nodes : \E k \in 1..Len(nodes[p].fetch) : FetchStall(p, k)

\* every ready continuation runs; every fetch is answered or stalls for ever
StallSpec == Init /\ [][NextStall]_vars /\ WF_vars(NextStall)

----------------------------------------------------------------------------
(* analyzeScriptAction, from the submitted values to the call of the       *)
(* assessment.  An optional string is << >> when undefined and <<s>> when  *)
(* it is the string s.                                                     *)

Undefined == << >>

Some(str) == <<str>>

\* JavaScript truthiness of an optional string
TruthyString(opt) == opt # Undefined /\ opt[1] # << >>

\* the values analyzeScriptAction may be called with
SubmittedContents ==
    {Undefined, Some(<< >>), Some(<<" ", "\n">>), Some(LeafScript),
     Some(DownloadScript)}

SubmittedUrls ==
    {Undefined, Some(<< >>), Some(uL), Some(uM), Some(<<"h">>)}

\* z.string().url()
IsUrlString(str) == UrlParse(str).ok

\* the schema of the form: scriptUrl is a URL, undefined or the empty
\* string, and one of the two fields is given
formSchema(values) ==
    IF TruthyString(values.scriptUrl)
    THEN IsUrlString(values.scriptUrl[1])
    ELSE TruthyString(values.scriptContent)

EmptyContentError ==
    <<"Script content is empty. Please paste a script or provide a valid URL.">>

\* what fetchRemoteScript({url}) can settle with: the body of the response,
\* or an error for an input that is no URL, a response that is not ok, and
\* a fetch that throws
fetchRemoteScript(url) ==
    IF ~IsUrlString(url)
    THEN { [kind |-> "throw", message |-> <<"Schema validation failed.">>] }
    ELSE { CASE resp.kind = "ok" ->
                  [kind |-> "ok", scriptContent |-> resp.body]
             [] resp.kind = "status" ->
                  [kind |-> "throw",
                   message |-> <<"Could not fetch script from URL. Please check if the URL is correct and accessible. Details: ",
                                 "Failed to fetch script: ", resp.statusText>>]
             [] resp.kind = "throw" ->
                  [kind |-> "throw",
                   message |-> <<"Could not fetch script from URL. Please check if the URL is correct and accessible. Details: ",
                                 resp.message>>] :
           resp \in FetchResponses(Web(url)) }

\* an action that hands whatever content it has to the assessment
AssessOrRejectWithoutBlankCheck(scriptContent, remote) ==
    IF scriptContent = Undefined
    THEN /\ action' = [action EXCEPT !.pc = "returned",
                                     !.scriptContent = scriptContent,
                                     !.remote = remote,
                                     !.result = [error |-> EmptyContentError]]
         /\ UNCHANGED nodes
    ELSE /\ action' = [action EXCEPT !.pc = "assessing",
                                     !.scriptContent = scriptContent,
                                     !.remote = remote]
         /\ nodes' = (Root :> NewNode(scriptContent[1]))

\* the blank check and the call of the assessment, for the content held in
\* the local scriptContent (remote: what fetchRemoteScript resolved to, if
\* it was called)
AssessOrReject(scriptContent, remote) ==
    IF ~TruthyString(scriptContent) \/ Trim(scriptContent[1]) = << >>
    THEN /\ action' = [action EXCEPT !.pc = "returned",
                                     !.scriptContent = scriptContent,
                                     !.remote = remote,
                                     !.result = [error |-> EmptyContentError]]
         /\ UNCHANGED nodes
    ELSE /\ action' = [action EXCEPT !.pc = "assessing",
                                     !.scriptContent = scriptContent,
                                     !.remote = remote]
         /\ nodes' = (Root :> NewNode(scriptContent[1]))

\* analyzeScriptAction up to its first await: with a scriptUrl it awaits
\* fetchRemoteScript, without one it goes on with values.scriptContent
Entered ==
    IF TruthyString(action.values.scriptUrl)
    THEN /\ action' = [action EXCEPT !.pc = "fetchingUrl",
                                     !.scriptContent = action.values.scriptContent]
         /\ UNCHANGED nodes
    ELSE AssessOrReject(action.values.scriptContent, action.remote)

\* the form is submitted with values its schema accepts
onSubmit ==
    /\ action.pc = "idle"
    /\ formSchema(action.values)
    /\ Entered
    /\ EngineHarnessUnchanged

\* the exported server action is called, with any values
analyzeScriptAction ==
    /\ action.pc = "idle"
    /\ Entered
    /\ EngineHarnessUnchanged

\* an action that lets the error of fetchRemoteScript escape
FetchRemoteScriptSettlesUncaught ==
    /\ action.pc = "fetchingUrl"
    /\ \E r \in fetchRemoteScript(action.values.scriptUrl[1]) :
          IF r.kind = "throw"
          THEN /\ action' = [action EXCEPT !.pc = "thrown", !.remote = r]
               /\ UNCHANGED nodes
          ELSE AssessOrReject(Some(r.scriptContent), r)
    /\ EngineHarnessUnchanged

\* the awaited fetchRemoteScript settles: its error is returned, its content
\* replaces the local scriptContent
FetchRemoteScriptSettles ==
    /\ action.pc = "fetchingUrl"
    /\ \E r \in fetchRemoteScript(action.values.scriptUrl[1]) :
          IF r.kind = "throw"
          THEN /\ action' =
                    [action EXCEPT
                        !.pc = "returned",
                        !.remote = r,
                        !.result =
                            [error |-> IF r.message # << >> THEN r.message
                                       ELSE <<"Failed to fetch script from the provided URL.">>]]
               /\ UNCHANGED nodes
          ELSE AssessOrReject(Some(r.scriptContent), r)
    /\ EngineHarnessUnchanged

InitAction ==
    /\ nodes = << >>
    /\ registry \in Registries
    /\ cryptoBuild \in {"webcrypto", "stub"}
    /\ \E c \in SubmittedContents, u \in SubmittedUrls :
          action = [pc |-> "idle",
                    values |-> [scriptContent |-> c, scriptUrl |-> u],
                    scriptContent |-> Undefined,
                    remote |-> [kind |-> "none"],
                    result |-> [none |-> TRUE]]
    /\ vCand = <<>>
    /\ vVerdict = NoVerdict

NextAction ==
    \/ onSubmit
    \/ analyzeScriptAction
    \/ FetchRemoteScriptSettles
    \/ Next

\* every fetch, every prompt call and the assessment settle, and every ready
\* continuation runs
SpecAction == InitAction /\ [][NextAction]_vars /\ WF_vars(NextAction)

----------------------------------------------------------------------------
(* Harness for the validator alone: isValidUrl applied to arbitrary        *)
(* candidate strings.                                                      *)

ValidatorAlphabet ==
    {"https://", "ftp://", "h", "/", "$", "{", "}", "BACKTICK", "(", " "}

Candidates == UNION {[1..n -> ValidatorAlphabet] : n \in 0..MaxLen}

InitValidator ==
    /\ nodes = << >>
    /\ registry = << >>
    /\ cryptoBuild = "webcrypto"
    /\ action = [pc |-> "idle", result |-> [none |-> TRUE]]
    /\ vCand \in Candidates
    /\ vVerdict = NoVerdict

\* every variant of isValidUrl is applied to the candidate
Validate ==
    /\ ~vVerdict.done
    /\ vVerdict' = [done |-> TRUE,
                    tool |-> isValidUrl(vCand),
                    subst |-> isValidUrlSubst(vCand),
                    charClass |-> isValidUrlCharClass(vCand),
                    includes |-> isValidUrlIncludes(vCand)]
    /\ UNCHANGED <<nodes, registry, cryptoBuild, action, vCand>>

NextValidator == Validate

SpecValidator == InitValidator /\ [][NextValidator]_vars

----------------------------------------------------------------------------
(* Properties.                                                             *)

Settled(p) == nodes[p].stage \in {"done", "failed"}

\* the invocation returned the depth-limit report without doing anything else
Truncated(p) ==
    /\ nodes[p].stage = "done"
    /\ nodes[p].report = DepthLimitReport(Depth(p))
    /\ nodes[p].report.riskScore = 10
    /\ nodes[p].urls = << >>
    /\ nodes[p].fetch = << >>
    /\ nodes[p].children = {}
    /\ nodes[p].prompt = NoPrompt
    /\ nodes[p].reply = NoReply

\* the invocation ran the pipeline and the collaborator produced its report
Synthesized(p) == nodes[p].stage = "done" /\ nodes[p].reply.kind = "output"

\* C1 - Depth termination: whatever the reference graph (self-reference,
\* 2-cycle), the root invocation eventually settles when every fetch and every
\* prompt call returns; an invocation deeper than MAX_RECURSION_DEPTH, once it
\* has run, has returned the depth-limit report (score 10, depth-limit text)
\* and has extracted, fetched and started nothing.
C1_DepthTermination ==
    /\ <>Settled(Root)
    /\ [](\A p \in DOMAIN nodes :
             (Depth(p) > 3 /\ nodes[p].stage # "invoked") => Truncated(p))

\* a self-referencing or cyclic chain was cut at depth 4 and the root finished
C1_Witness ==
    /\ nodes[Root].stage = "done"
    /\ \E p \in DOMAIN nodes : Depth(p) = 4 /\ Truncated(p)

\* C2 - Monotonic synthesis (as claimed): a finished parent never has a
\* riskScore below the riskScore of one of its direct children.
C2_MonotonicSynthesis ==
    \A p \in DOMAIN nodes :
        Synthesized(p) =>
            \A k \in nodes[p].children :
                nodes[p].report.riskScore >= Child(p, k).report.riskScore

\* the fetch of entry k of invocation p came back and its outcome was classified
Classified(p, k) ==
    /\ k \in 1..Len(nodes[p].records)
    /\ k \in 1..Len(nodes[p].fetch)
    /\ nodes[p].fetch[k].st = "settled"

RegistryHas(url, digest) ==
    \E i \in 1..Len(registry) :
        /\ registry[i].url = url
        /\ registry[i].hash = digest
        /\ \A j \in (i + 1)..Len(registry) : registry[j].url # url

HasStatus(status) ==
    \E p \in DOMAIN nodes : \E k \in 1..Len(nodes[p].records) :
        Classified(p, k) /\ nodes[p].records[k].status = status

C4_RejectionSoundness ==
    (vVerdict.done /\ Range(vCand) \cap ExpansionMarkers # {}) =>
        (~vVerdict.tool /\ ~vVerdict.subst /\ ~vVerdict.charClass)

\* end of the shell word that starts at j: it runs to the next blank, pipe
\* or semicolon
WordEnd(text, j) ==
    Min({e \in j..Len(text) :
            e = Len(text) \/ text[e + 1] \in (WS \cup PrefixExcluded)})

\* the URL arguments written in a script: the words that start with http(s)://
UrlArguments(text) ==
    {SubSeq(text, q, WordEnd(text, q)) :
        q \in {i \in 1..Len(text) : text[i] \in HttpSchemes}}

\* C5 (as claimed) - a URL argument with a shell expansion inside it is never
\* fetched, not even the prefix that precedes the expansion marker.
C5_NoFetchOfExpansionPrefix ==
    \A p \in DOMAIN nodes : \A k \in 1..Len(nodes[p].urls) :
        ~\E arg \in UrlArguments(nodes[p].content) :
            /\ Range(arg) \cap ExpansionMarkers # {}
            /\ IsPrefix(nodes[p].urls[k], arg)


\* the invocation has run the synchronous start of the tool
Extracted(p) == nodes[p].stage \notin {"invoked"} /\ ~Truncated(p)

\* the tool has returned and the outcomes have been classified
Joined(p) == nodes[p].stage \in {"recursing", "synthesizing", "done", "failed"}
             /\ ~Truncated(p)

Occurrences(s, x) == Cardinality({i \in 1..Len(s) : s[i] = x})

\* C6 - Dedup: a URL that a script references two or more times gets exactly
\* one fetch in the analysis of that document and exactly one trust record,
\* in the verification results and in the remoteScripts of the report.
C6_Dedup ==
    \A p \in DOMAIN nodes :
        \A u \in Range(validUrls(nodes[p].content)) :
            Occurrences(validUrls(nodes[p].content), u) >= 2 =>
                /\ Extracted(p) =>
                      Cardinality({k \in 1..Len(nodes[p].fetch) :
                                      /\ nodes[p].urls[k] = u
                                      /\ nodes[p].fetch[k].st # "idle"}) = 1
                /\ Joined(p) =>
                      Cardinality({k \in 1..Len(nodes[p].records) :
                                      nodes[p].records[k].url = u}) = 1
                /\ Synthesized(p) =>
                      Occurrences([k \in 1..Len(nodes[p].report.billOfMaterials.remoteScripts) |->
                                     nodes[p].report.billOfMaterials.remoteScripts[k].url], u) = 1

\* a script with a repeated URL was analysed to the end
C6_Witness ==
    \E p \in DOMAIN nodes :
        /\ Synthesized(p)
        /\ \E u \in Range(validUrls(nodes[p].content)) :
              Occurrences(validUrls(nodes[p].content), u) >= 2

\* C7 - Bill-of-materials provenance: the remoteScripts of every report the
\* flow produces is the list of trust records the engine accumulated, in the
\* same order, whatever list the collaborator returned; externalBinaries is
\* the list of the collaborator.
C7_BomProvenance ==
    \A p \in DOMAIN nodes :
        Synthesized(p) =>
            /\ nodes[p].report.billOfMaterials.remoteScripts = nodes[p].records
            /\ nodes[p].report.billOfMaterials.externalBinaries
                 = nodes[p].reply.output.billOfMaterials.externalBinaries
            /\ nodes[p].report.riskScore = nodes[p].reply.output.riskScore

\* the collaborator returned a list that differs from the records of the
\* engine, for a document with at least two records
C7_Witness ==
    \E p \in DOMAIN nodes :
        /\ Synthesized(p)
        /\ Len(nodes[p].records) >= 2
        /\ nodes[p].reply.output.billOfMaterials.remoteScripts # nodes[p].records
        /\ nodes[p].reply.output.billOfMaterials.externalBinaries # << >>

CollaboratorFailed(p) == nodes[p].reply.kind \in {"none", "throw"}

\* C8 - Fetch failures are never fatal: whatever each fetch answers, the tool
\* returns one outcome per URL and the analysis goes on; a failed fetch gives
\* a trust record with status error and a non-empty detail; an invocation
\* fails only when a prompt call failed, never because of a fetch.
C8_FetchFailuresNotFatal ==
    \A p \in DOMAIN nodes :
        /\ Joined(p) =>
              /\ Len(nodes[p].records) = Len(nodes[p].urls)
              /\ \A k \in 1..Len(nodes[p].urls) :
                    /\ nodes[p].fetch[k].st = "settled"
                    /\ nodes[p].records[k].url = nodes[p].urls[k]
                    /\ nodes[p].fetch[k].resp # "ok" =>
                          /\ nodes[p].records[k].status = "error"
                          /\ "details" \in DOMAIN nodes[p].records[k]
                          /\ nodes[p].records[k].details # << >>
        /\ nodes[p].stage = "failed" =>
              \E q \in DOMAIN nodes : IsPrefix(p, q) /\ CollaboratorFailed(q)

\* an analysis with a 404 and a transport failure among its fetches produced
\* its report
C8_Witness ==
    \E p \in DOMAIN nodes :
        /\ Synthesized(p)
        /\ \E k \in 1..Len(nodes[p].fetch) : nodes[p].fetch[k].resp = "status"
        /\ \E k \in 1..Len(nodes[p].fetch) : nodes[p].fetch[k].resp = "throw"

C10_JoinBeforeClassification ==
    \A p \in DOMAIN nodes :
        /\ (\E k \in 1..Len(nodes[p].fetch) : nodes[p].fetch[k].st # "idle") =>
              \A k \in 1..Len(nodes[p].fetch) : nodes[p].fetch[k].st # "idle"
        /\ (nodes[p].records # << >> \/ nodes[p].stage \notin {"invoked", "fetching"}) =>
              \A k \in 1..Len(nodes[p].fetch) : nodes[p].fetch[k].st = "settled"

\* one fetch of a document has come back while another is still in flight,
\* and nothing has been classified
C10_Witness ==
    \E p \in DOMAIN nodes :
        /\ nodes[p].stage = "fetching"
        /\ nodes[p].records = << >>
        /\ \E k \in 1..Len(nodes[p].fetch) : nodes[p].fetch[k].st = "settled"
        /\ \E k \in 1..Len(nodes[p].fetch) : nodes[p].fetch[k].st = "inflight"

AnyFetching == \E p \in DOMAIN nodes : nodes[p].stage = "fetching"

AnyStalled ==
    \E p \in DOMAIN nodes : \E k \in 1..Len(nodes[p].fetch) :
        nodes[p].fetch[k].st = "stalled"

\* C11 - Bounded fetch (as claimed): a fetch whose server never responds
\* eventually yields an outcome, and the fetching stage of every document
\* eventually completes.
C11_BoundedFetch ==
    /\ AnyStalled ~> ~AnyStalled
    /\ <>[](~AnyFetching)

\* C12 - Deterministic output order: whatever the order in which the fetches
\* of a document complete, its outcomes, its trust records and the
\* remoteScripts of its report are in the order of the unique validated URLs
\* of the script text, each record carrying the URL of its own outcome.
C12_DeterministicOrder ==
    \A p \in DOMAIN nodes :
        Joined(p) =>
            /\ nodes[p].urls = uniqueValidUrls(nodes[p].content)
            /\ Len(nodes[p].records) = Len(nodes[p].urls)
            /\ \A k \in 1..Len(nodes[p].urls) :
                  /\ nodes[p].fetch[k].out.url = nodes[p].urls[k]
                  /\ nodes[p].records[k].url = nodes[p].urls[k]
                  /\ (nodes[p].records[k].status = "error")
                        = ("error" \in DOMAIN nodes[p].fetch[k].out)
                  /\ Synthesized(p) =>
                        nodes[p].report.billOfMaterials.remoteScripts[k]
                          = nodes[p].records[k]

\* the fetch of the second URL completed before the fetch of the first one,
\* with different results, and the report was produced
C12_Witness ==
    \E p \in DOMAIN nodes :
        /\ Synthesized(p)
        /\ Len(nodes[p].fetch) >= 2
        /\ nodes[p].fetch[1].at = 2
        /\ nodes[p].fetch[2].at = 1
        /\ nodes[p].fetch[1].resp # nodes[p].fetch[2].resp

\* the candidate parses as an absolute URL whose scheme is http or https
ParsesAsHttp(str) == UrlParse(str).ok /\ UrlParse(str).protocol \in HttpSchemes

\* C13 - Scheme restriction (as claimed): a variant of isValidUrl accepts a
\* candidate only if it parses as an absolute URL with scheme http or https;
\* a candidate with another scheme, or that does not parse, is rejected.
C13_SchemeRestriction ==
    (vVerdict.done /\ ~ParsesAsHttp(vCand)) =>
        (~vVerdict.tool /\ ~vVerdict.includes)

ShellNames == {"bash", "sh", "zsh"}

\* first and last token of the line that holds position i
LineStart(text, i) == Max({1} \cup {j + 1 : j \in {n \in 1..(i - 1) : text[n] = "\n"}})

LineEnd(text, i) ==
    Min({Len(text)} \cup {j - 1 : j \in {n \in (i + 1)..Len(text) : text[n] = "\n"}})

\* the URL at q is fetched by a curl/wget of its own line whose output is run:
\* piped into a shell, inside $( ) or backticks, or inside source <( )
Executed(text, q) ==
    \E i \in LineStart(text, q)..(q - 1) :
        /\ text[i] \in FetchVerbs
        /\ \/ \E j \in (q + 1)..LineEnd(text, q) :
                 /\ text[j] = "|"
                 /\ \E m \in (j + 1)..LineEnd(text, q) :
                       /\ text[m] \in ShellNames
                       /\ \A n \in (j + 1)..(m - 1) : text[n] \in WS
           \/ \E j \in LineStart(text, q)..(i - 1) :
                 \/ text[j] = "BACKTICK"
                 \/ text[j] \in {"$", "<"} /\ text[j + 1] = "("

\* C14 - Execution-idiom-scoped extraction (as claimed): every URL the
\* extractor yields is the argument of a curl/wget on the same line whose
\* output is executed; a plain download, or a URL on a later line than the
\* curl/wget token, yields nothing.
C14_IdiomScopedExtraction ==
    \A p \in DOMAIN nodes :
        Extracted(p) =>
            \A k \in 1..Len(nodes[p].urls) :
                \E q \in 1..Len(nodes[p].content) :
                    /\ nodes[p].content[q] \in HttpSchemes
                    /\ Executed(nodes[p].content, q)
                    /\ IsPrefix(nodes[p].urls[k],
                                SubSeq(nodes[p].content, q, Len(nodes[p].content)))

\* C15 - Fetch outcome shape (as claimed): every outcome of the fetch stage
\* is either content together with its digest and no error, or an error and
\* neither content nor digest; none has content without a digest.
C15_OutcomeShape ==
    \A p \in DOMAIN nodes : \A k \in 1..Len(nodes[p].fetch) :
        nodes[p].fetch[k].st = "settled" =>
            LET o == nodes[p].fetch[k].out
            IN  \/ /\ "content" \in DOMAIN o
                   /\ Truthy(o, "hash")
                   /\ "error" \notin DOMAIN o
                \/ /\ Truthy(o, "error")
                   /\ "content" \notin DOMAIN o
                   /\ "hash" \notin DOMAIN o

\* a sub-analysis of outcome k of invocation p exists, on the content of that
\* outcome and one level deeper
HasChild(p, k) ==
    /\ k \in nodes[p].children
    /\ Append(p, k) \in DOMAIN nodes
    /\ Child(p, k).content = nodes[p].fetch[k].out.content
    /\ Depth(Append(p, k)) = Depth(p) + 1

NoChild(p, k) == k \notin nodes[p].children /\ Append(p, k) \notin DOMAIN nodes

\* C16 (as claimed) - Recursion rule: every outcome without an error, an empty
\* body included, gets one sub-analysis on its content at depth + 1; an
\* outcome with an error gets none.
C16_RecursionRule_AsClaimed ==
    \A p \in DOMAIN nodes :
        Joined(p) =>
            \A k \in 1..Len(nodes[p].fetch) :
                IF "error" \in DOMAIN nodes[p].fetch[k].out
                THEN NoChild(p, k)
                ELSE HasChild(p, k)

\* C16 (amended) - Recursion rule: every outcome without an error and with a
\* non-empty content gets one sub-analysis on its content at depth + 1; an
\* outcome with an error or with an empty content gets none.
C16_RecursionRule ==
    \A p \in DOMAIN nodes :
        Joined(p) =>
            \A k \in 1..Len(nodes[p].fetch) :
                IF \/ "error" \in DOMAIN nodes[p].fetch[k].out
                   \/ nodes[p].fetch[k].out.content = << >>
                THEN NoChild(p, k)
                ELSE HasChild(p, k)

\* one document got an empty body for one URL (no sub-analysis) and a script
\* for another (sub-analysis started)
C16_Witness ==
    \E p \in DOMAIN nodes : \E k, m \in 1..Len(nodes[p].fetch) :
        /\ Joined(p)
        /\ nodes[p].fetch[k].resp = "ok"
        /\ nodes[p].fetch[k].out.content = << >>
        /\ NoChild(p, k)
        /\ nodes[p].fetch[m].resp = "ok"
        /\ HasChild(p, m)

\* a hex digest with its letters in lower case
LowerCaseHex(d) == [i \in 1..Len(d) |-> IF d[i] = "SHA256:" THEN "sha256:" ELSE d[i]]

\* C17 - Digest comparison (as claimed): a fetched digest and the registry
\* digest of the same URL are equal (verified) when they differ at most in the
\* letter case of their hex digits, and unequal (unverified) otherwise.
C17_CaseNormalizedCompare ==
    \A p \in DOMAIN nodes : \A k \in 1..Len(nodes[p].records) :
        LET o == nodes[p].fetch[k].out
            map == knownScriptsMap(registry)
        IN  (Classified(p, k) /\ Truthy(o, "hash") /\ o.url \in DOMAIN map) =>
                ((nodes[p].records[k].status = "verified")
                    = (LowerCaseHex(o.hash) = LowerCaseHex(map[o.url])))

\* the argument of a curl/wget of the script begins with a shell variable and
\* the script holds no literal address
BeginsWithVariable(text) ==
    /\ \E i \in 1..(Len(text) - 2) :
          text[i] \in FetchVerbs /\ text[i + 1] \in WS /\ text[i + 2] = "$"
    /\ Range(text) \cap HttpSchemes = {}

\* C18 - A candidate that begins with a shell variable (curl
\* ${REPO_URL}/setup.sh | bash) gives no validated reference: no fetch is
\* attempted, no trust record is made and remoteScripts of the report is empty.
C18_VariableCandidateRejected ==
    \A p \in DOMAIN nodes :
        BeginsWithVariable(nodes[p].content) =>
            /\ nodes[p].urls = << >>
            /\ nodes[p].fetch = << >>
            /\ nodes[p].records = << >>
            /\ nodes[p].children = {}
            /\ Synthesized(p) =>
                  nodes[p].report.billOfMaterials.remoteScripts = << >>

\* curl ${REPO_URL}/setup.sh | bash was analysed to the end
C18_Witness ==
    \E p \in DOMAIN nodes :
        /\ nodes[p].content = VariableScript
        /\ BeginsWithVariable(nodes[p].content)
        /\ Synthesized(p)

\* the script holds no curl and no wget
NoFetchIdiom(text) == Range(text) \cap FetchVerbs = {}

C20_ErrorDetail ==
    \A p \in DOMAIN nodes : \A k \in 1..Len(nodes[p].fetch) :
        (nodes[p].fetch[k].st = "settled" /\ nodes[p].fetch[k].resp # "ok") =>
            LET o == nodes[p].fetch[k].out IN
            /\ DOMAIN o = {"url", "error"}
            /\ o.url = nodes[p].urls[k]
            /\ nodes[p].fetch[k].resp = "status" =>
                  HasPair(o.error, "404", " ") /\ "Not Found" \in Range(o.error)
            /\ nodes[p].fetch[k].resp = "throw" => "fetch failed" \in Range(o.error)
            /\ Joined(p) =>
                  /\ nodes[p].records[k].status = "error"
                  /\ nodes[p].records[k].details = o.error

\* a document with a 404 and a transport failure was classified: the detail of
\* one record holds 404, the detail of the other the failure description
C20_Witness ==
    \E p \in DOMAIN nodes : \E k, m \in 1..Len(nodes[p].records) :
        /\ Joined(p)
        /\ nodes[p].fetch[k].resp = "status"
        /\ "404" \in Range(nodes[p].records[k].details)
        /\ nodes[p].fetch[m].resp = "throw"
        /\ "fetch failed" \in Range(nodes[p].records[m].details)

HasFailedReference(p) ==
    \E k \in 1..Len(nodes[p].records) :
        nodes[p].records[k].status \in {"error", "unverified"}

\* C22 - Failed references raise the score (as claimed): when a direct
\* reference of a document is classified error or unverified, the riskScore
\* of its report is raised by the engine above the lowest score, also when
\* the collaborator returned the lowest score.
C22_FailedReferencesRaiseScore ==
    \A p \in DOMAIN nodes :
        (Synthesized(p) /\ HasFailedReference(p)) =>
            nodes[p].report.riskScore > MinRiskScore

\* position of a stage in the order of the analysis of one document:
\* extracting and validating happen in the step that leaves "invoked",
\* classifying in the step that leaves "fetching"
StageRank(stage) ==
    CASE stage = "invoked" -> 0
      [] stage = "fetching" -> 1
      [] stage = "recursing" -> 2
      [] stage = "synthesizing" -> 3
      [] stage \in {"done", "failed"} -> 4

\* what each stage has produced when the document is in it
StageProducts(p) ==
    LET n == nodes[p] IN
    /\ n.stage = "invoked" =>
          n.urls = << >> /\ n.fetch = << >> /\ n.records = << >>
          /\ n.children = {} /\ n.prompt = NoPrompt /\ n.reply = NoReply
    /\ n.stage = "fetching" =>
          n.urls = uniqueValidUrls(n.content) /\ Len(n.fetch) = Len(n.urls)
          /\ n.records = << >> /\ n.children = {}
          /\ n.prompt = NoPrompt /\ n.reply = NoReply
    /\ n.stage = "recursing" =>
          AllSettled(n.fetch) /\ Len(n.records) = Len(n.fetch)
          /\ n.prompt = NoPrompt /\ n.reply = NoReply
    /\ n.stage = "synthesizing" =>
          AllSettled(n.fetch) /\ n.prompt # NoPrompt /\ n.reply = NoReply
          /\ \A k \in n.children : Child(p, k).stage = "done"
    /\ (n.stage = "done" /\ ~Truncated(p)) =>
          n.reply.kind = "output"
          /\ \A k \in n.children : Child(p, k).stage = "done"

\* C23 - Stage order per document: a document never goes back to an earlier
\* stage and, unless it is cut by the depth limit or fails, takes the stages
\* one after the other; the prompt is called only when every sub-analysis of
\* the document is done; a document that is done stays done with its report.
C23_StageOrder ==
    /\ [](\A p \in DOMAIN nodes : StageProducts(p))
    /\ [][\A p \in DOMAIN nodes :
            LET old == StageRank(nodes[p].stage)
                new == StageRank(nodes'[p].stage)
            IN  /\ p \in DOMAIN nodes'
                /\ new >= old
                /\ new > old + 1 =>
                      \/ nodes'[p].stage = "failed"
                      \/ old = 0 /\ DepthExceeded(Depth(p))
                /\ old = 4 => nodes'[p] = nodes[p]]_vars

\* a document with two sub-analyses went through every stage and is done
C23_Witness ==
    \E p \in DOMAIN nodes :
        /\ Synthesized(p)
        /\ Cardinality(nodes[p].children) >= 2
        /\ \A k \in nodes[p].children : Synthesized(Append(p, k))

\* the trust records of a document computed from its own fetch outcomes and
\* the registry alone
OwnRecords(p) ==
    [k \in 1..Len(nodes[p].fetch) |->
        Classify(nodes[p].fetch[k].out, knownScriptsMap(registry))]

RanPipeline(p) ==
    /\ nodes[p].stage # "invoked"
    /\ ~Truncated(p)
    /\ nodes[p].urls = uniqueValidUrls(nodes[p].content)
    /\ Len(nodes[p].fetch) = Len(nodes[p].urls)
    /\ nodes[p].stage = "done" => nodes[p].reply.kind = "output"

\* C25 - Depth accounting: the root runs at depth 0 and a sub-analysis one
\* level below its parent; an invocation at depth 0 to 3 runs the whole
\* pipeline, an invocation at depth 4 is cut; no invocation is deeper than 4
\* and none deeper than 3 issues a fetch.
C25_DepthAccounting ==
    /\ Root \in DOMAIN nodes /\ Depth(Root) = 0
    /\ \A p \in DOMAIN nodes :
          /\ Depth(p) <= MAX_RECURSION_DEPTH + 1
          /\ Depth(p) > 0 =>
                LET parent == SubSeq(p, 1, Len(p) - 1) IN
                /\ parent \in DOMAIN nodes
                /\ p[Len(p)] \in nodes[parent].children
                /\ Depth(p) = Depth(parent) + 1
                /\ RanPipeline(parent)
          /\ nodes[p].stage # "invoked" =>
                IF Depth(p) <= 3 THEN RanPipeline(p) ELSE Truncated(p)
          /\ nodes[p].fetch # << >> => Depth(p) <= 3

\* an invocation at depth 3 fetched and ran to its report, above a cut
\* invocation at depth 4
C25_Witness ==
    \E p \in DOMAIN nodes : \E k \in nodes[p].children :
        /\ Depth(p) = 3
        /\ Synthesized(p)
        /\ nodes[p].fetch # << >>
        /\ Truncated(Append(p, k))

\* q is a proper ancestor of p in the tree of invocations
IsAncestor(q, p) == Len(q) < Len(p) /\ IsPrefix(q, p)

\* C26 - No cycle memoization: a document below the depth limit fetches every
\* one of its validated URLs and analyses every script it gets, also when an
\* ancestor has fetched the same URL or analysed the same script; in the cycle
\* A sources B sources A the invocations alternate A, B, A, B; only the depth
\* limit cuts a chain.
C26_NoCycleMemoization ==
    \A p \in DOMAIN nodes :
        /\ Extracted(p) =>
              \A u \in Range(validUrls(nodes[p].content)) :
                  \E k \in 1..Len(nodes[p].urls) :
                      nodes[p].urls[k] = u /\ nodes[p].fetch[k].st # "idle"
        /\ Joined(p) =>
              \A k \in 1..Len(nodes[p].fetch) :
                  (nodes[p].fetch[k].resp = "ok"
                   /\ nodes[p].fetch[k].out.content # << >>) =>
                      /\ Append(p, k) \in DOMAIN nodes
                      /\ Child(p, k).content = Web(nodes[p].urls[k])
        /\ nodes[Root].content = ScriptA =>
              nodes[p].content = IF Depth(p) % 2 = 0 THEN ScriptA ELSE ScriptB
        /\ (nodes[p].stage = "done" /\ nodes[p].reply = NoReply) =>
              Depth(p) = MAX_RECURSION_DEPTH + 1

\* in the cycle, https://b was fetched again two levels below the document
\* that fetched it first, and the chain was cut at depth 4
C26_Witness ==
    /\ nodes[Root].content = ScriptA
    /\ \E p, q \in DOMAIN nodes :
          /\ IsAncestor(q, p)
          /\ Joined(p) /\ Joined(q)
          /\ nodes[p].urls = <<uB>> /\ nodes[q].urls = <<uB>>
          /\ nodes[p].fetch[1].resp = "ok" /\ nodes[q].fetch[1].resp = "ok"
    /\ \E t \in DOMAIN nodes : Depth(t) = 4 /\ Truncated(t)

\* the URLs of a sequence of trust records
RecordUrls(records) == [k \in 1..Len(records) |-> records[k].url]

\* no element of the sequence occurs twice
PairwiseDistinct(s) == \A i, j \in 1..Len(s) : s[i] = s[j] => i = j

\* C27 - One record per validated URL: once the fetches of a document are
\* classified, the URLs of its trust records are pairwise distinct and are
\* exactly the validated URLs of the document, failed fetches included; the
\* same holds for the remoteScripts of the report it returns.
C27_OneRecordPerValidatedUrl ==
    \A p \in DOMAIN nodes :
        /\ Joined(p) =>
              /\ PairwiseDistinct(RecordUrls(nodes[p].records))
              /\ Range(RecordUrls(nodes[p].records))
                     = Range(validUrls(nodes[p].content))
        /\ Synthesized(p) =>
              /\ PairwiseDistinct(
                     RecordUrls(nodes[p].report.billOfMaterials.remoteScripts))
              /\ Range(RecordUrls(nodes[p].report.billOfMaterials.remoteScripts))
                     = Range(validUrls(nodes[p].content))

\* a document with a repeated reference and a document with two references,
\* one of them failed, were both analysed to the end
C27_Witness ==
    /\ \E p \in DOMAIN nodes :
          /\ Synthesized(p)
          /\ Len(validUrls(nodes[p].content)) > Len(nodes[p].records)
          /\ Len(nodes[p].records) >= 1
    /\ \E q \in DOMAIN nodes :
          /\ Synthesized(q)
          /\ Len(nodes[q].records) >= 2
          /\ \E k \in 1..Len(nodes[q].records) :
                nodes[q].records[k].status = "error"

\* analyzeScriptAction has returned
Returned == action.pc = "returned"

\* the assessment was called
AssessmentInvoked == Root \in DOMAIN nodes

\* an optional string that is undefined, empty or white space only
Blank(opt) == IF TruthyString(opt) THEN Trim(opt[1]) = << >> ELSE TRUE

\* the content the action works with, from the values and the fetch alone
EffectiveContent ==
    IF ~TruthyString(action.values.scriptUrl) THEN action.values.scriptContent
    ELSE IF action.remote.kind = "ok" THEN Some(action.remote.scriptContent)
    ELSE Undefined

\* C28 - analyzeScriptAction never throws and returns exactly one of data and
\* error: it is always waiting or returned, and when every awaited call
\* settles it returns; the result has a non-empty error and no data after a
\* failed URL fetch, for empty content and after a failed assessment, and
\* the report as data and no error after a successful assessment.
C28_ExactlyOneOfDataOrError ==
    /\ [](action.pc \in {"idle", "fetchingUrl", "assessing", "returned"})
    /\ <>Returned
    /\ [](Returned =>
             /\ DOMAIN action.result \in {{"data"}, {"error"}}
             /\ "error" \in DOMAIN action.result => action.result.error # << >>
             /\ action.remote.kind = "throw" =>
                   /\ DOMAIN action.result = {"error"}
                   /\ ~AssessmentInvoked
             /\ (action.remote.kind # "throw" /\ Blank(EffectiveContent)) =>
                   /\ DOMAIN action.result = {"error"}
                   /\ ~AssessmentInvoked
             /\ (action.remote.kind # "throw" /\ ~Blank(EffectiveContent)) =>
                   /\ AssessmentInvoked
                   /\ nodes[Root].stage = "failed" =>
                         action.result = [error |-> nodes[Root].error]
                   /\ nodes[Root].stage = "done" =>
                         action.result = [data |-> nodes[Root].report])

\* the URL was fetched, the assessment of its content failed, and the action
\* has returned
C28_Witness ==
    /\ Returned
    /\ action.remote.kind = "ok"
    /\ AssessmentInvoked
    /\ nodes[Root].stage = "failed"
    /\ "error" \in DOMAIN action.result

\* C29 - Input gating in analyzeScriptAction: the assessment is called only
\* with content that is not blank; with a scriptUrl that content is what the
\* URL served, whatever scriptContent was supplied, and without one it is the
\* supplied scriptContent; after a failed fetch the assessment is not called;
\* when the effective content is missing or white space only the action
\* returns the Script-content-is-empty error and the assessment is not called.
C29_InputGating ==
    /\ AssessmentInvoked =>
          /\ Trim(nodes[Root].content) # << >>
          /\ IF TruthyString(action.values.scriptUrl)
             THEN /\ action.remote.kind = "ok"
                  /\ nodes[Root].content = Web(action.values.scriptUrl[1])
             ELSE /\ action.remote.kind = "none"
                  /\ nodes[Root].content = action.values.scriptContent[1]
    /\ action.remote.kind = "throw" => ~AssessmentInvoked
    /\ (action.pc \notin {"idle", "fetchingUrl"}
        /\ action.remote.kind # "throw"
        /\ Blank(EffectiveContent)) =>
          /\ Returned
          /\ action.result = [error |-> EmptyContentError]
          /\ ~AssessmentInvoked

\* a script was supplied together with a URL, and the assessment ran on what
\* the URL served, which is another script
C29_Witness ==
    /\ TruthyString(action.values.scriptContent)
    /\ TruthyString(action.values.scriptUrl)
    /\ AssessmentInvoked
    /\ nodes[Root].stage # "invoked"
    /\ nodes[Root].content # action.values.scriptContent[1]

\* C30 - Empty digest never verified: a script that was fetched and whose
\* computed digest is the empty string is classified unverified, also when
\* the registry expects the empty string for its URL; with the sha256 that
\* always returns the empty string every fetched script is unverified and no
\* record, in the verification results or in the report, is verified.
C30_EmptyDigestNeverVerified ==
    \A p \in DOMAIN nodes : \A k \in 1..Len(nodes[p].records) :
        Classified(p, k) =>
            LET o == nodes[p].fetch[k].out
                fetched == nodes[p].fetch[k].resp = "ok"
            IN  /\ (fetched /\ o.hash = << >>) =>
                      nodes[p].records[k].status = "unverified"
                /\ cryptoBuild = "stub" =>
                      /\ fetched => /\ o.hash = << >>
                                    /\ nodes[p].records[k].status = "unverified"
                      /\ nodes[p].records[k].status # "verified"
                      /\ Synthesized(p) =>
                            nodes[p].report.billOfMaterials.remoteScripts[k].status
                                # "verified"

\* with the stub digest, a script with content was fetched from a URL for
\* which the registry expects the empty string, and the analysis finished
C30_Witness ==
    /\ cryptoBuild = "stub"
    /\ \E p \in DOMAIN nodes : \E k \in 1..Len(nodes[p].records) :
          /\ Synthesized(p)
          /\ Classified(p, k)
          /\ nodes[p].fetch[k].resp = "ok"
          /\ nodes[p].fetch[k].out.content # << >>
          /\ nodes[p].fetch[k].out.url \in DOMAIN knownScriptsMap(registry)
          /\ knownScriptsMap(registry)[nodes[p].fetch[k].out.url] = << >>

====
